---------------------------- MODULE Spec2Model ----------------------------
(***************************************************************************)
(* A model of the goes Elasticsearch client (src/goes.go): the request     *)
(* dispatcher Request.Run / Request.run, the URL builder Request.URL and   *)
(* the existence checks built on them.                                     *)
(*                                                                         *)
(* Strings that take part in concatenation or in per-character checks are  *)
(* sequences of one-character strings.  A response body is the structured  *)
(* value its bytes spell; decoding it follows encoding/json.               *)
(***************************************************************************)
EXTENDS Integers, Sequences, FiniteSets, TLC

VARIABLES
    pc,         \* position of the single caller: idle, run, Run, exists, done, panic
    op,         \* the client operation in progress
    client,     \* the Client: Host, Port, Client
    req,        \* the Request being run
    postData,   \* the body handed to http.NewRequest
    sent,       \* whether a request reached the transport, and what it carried
    calls,      \* number of times Client.Do was invoked by the current call
    out,        \* what Client.Do and the reading of the body gave
    body,       \* first result of run(): the response body, or nil
    statusCode, \* second result of run()
    runErr,     \* third result of run()
    esResp,     \* the *Response returned by Run
    err,        \* the error returned by Run
    decoded,    \* whether json.Unmarshal was applied to the body
    classified, \* whether the error classification (lines 369-384) ran
    exists,     \* the boolean returned by IndicesExist / AliasExists
    url,        \* the string req.URL() returned
    inserted,   \* the Add calls by which the caller filled the url.Values
    documents,  \* the []Document handed to BulkSend
    agg,        \* a call on the aggregation tree: receiver, argument, result
    procs,      \* the calls of the callers that share the Client concurrently
    aliasCall   \* the arguments of the AddAlias / RemoveAlias call in progress

vars == <<pc, op, client, req, postData, sent, calls, out, body, statusCode, runErr,
          esResp, err, decoded, classified, exists, url, inserted, documents, agg,
          procs, aliasCall>>

-----------------------------------------------------------------------------
(* Bounds of the model *)

MaxItems == 2       \* longest "items" list of a response body
MaxList == 2        \* longest IndexList / TypeList of a request
MaxDocs == 2        \* longest document list handed to BulkSend
MaxBuckets == 2     \* longest "buckets" list of an aggregation node

-----------------------------------------------------------------------------
(* Character strings *)

RECURSIVE Join(_, _)
\* strings.Join(list, sep)
Join(list, sep) ==
    IF list = <<>> THEN <<>>
    ELSE IF Len(list) = 1 THEN list[1]
    ELSE list[1] \o sep \o Join(Tail(list), sep)

GET == <<"G", "E", "T">>
POST == <<"P", "O", "S", "T">>
PUT == <<"P", "U", "T">>
DELETE == <<"D", "E", "L", "E", "T", "E">>
HEAD == <<"H", "E", "A", "D">>
BadMethod == <<"G", " ", "T">>

ApiBulk == <<"_", "b", "u", "l", "k">>
ApiSearch == <<"_", "s", "e", "a", "r", "c", "h">>


Digits == {"0", "1", "2", "3", "4", "5", "6", "7", "8", "9"}

-----------------------------------------------------------------------------
(* JSON values, as the bytes of a response body spell them *)

JAbsent == [t |-> "absent", v |-> 0]
JNull == [t |-> "null", v |-> 0]
JStr(s) == [t |-> "str", v |-> s]
JNum(n) == [t |-> "num", v |-> n]
JBool(b) == [t |-> "bool", v |-> b]
JArr(a) == [t |-> "arr", v |-> a]

\* The keys of a response object that Request.Run reads, and "took" for the rest.
Keys == {"error", "status", "errors", "found", "items", "took"}

AllAbsent == [k \in Keys |-> JAbsent]

\* A body is its kind (no bytes, bytes that are not JSON, the literal null, a
\* JSON array, a JSON object) and, for an object, the value under each key.
EmptyBody == [kind |-> "empty", f |-> AllAbsent]
GarbageBody == [kind |-> "garbage", f |-> AllAbsent]
NullBody == [kind |-> "null", f |-> AllAbsent]
ArrayBody == [kind |-> "array", f |-> AllAbsent]
Object(f) == [kind |-> "object", f |-> f]

NilBody == [kind |-> "nil", f |-> AllAbsent]

-----------------------------------------------------------------------------
(* Errors *)

NoError == [kind |-> "nil", Msg |-> "", StatusCode |-> 0, text |-> NilBody]

\* &SearchError{msg, status}
SearchError(msg, status) ==
    [kind |-> "SearchError", Msg |-> msg, StatusCode |-> status, text |-> NilBody]

\* errors.New(string(body))
ErrorsNew(b) == [kind |-> "errorString", Msg |-> "", StatusCode |-> 0, text |-> b]

\* An error produced outside this package: by the injected http.Client, by
\* http.NewRequest or by encoding/json.
ForeignError(kind, msg) == [kind |-> kind, Msg |-> msg, StatusCode |-> 0, text |-> NilBody]

\* (err *SearchError) Error(): fmt.Sprintf("[%d] %s", err.StatusCode, err.Msg)
Error(e) == <<"[", e.StatusCode, "] ", e.Msg>>

-----------------------------------------------------------------------------
(* The typed envelope and the raw tree *)

NilRaw == [nil |-> TRUE, tree |-> <<>>]

\* &Response{Status: statusCode}
NewResponse(status) ==
    [Status |-> status, Error |-> "", Errors |-> FALSE, Found |-> FALSE,
     Took |-> 0, Items |-> <<>>, Raw |-> NilRaw]

\* encoding/json stores a value in a field only when the JSON type fits the
\* field's Go type; null and an absent key leave the field alone.
Fits(j, goType) ==
    CASE goType = "string" -> j.t = "str"
      [] goType = "bool" -> j.t = "bool"
      [] goType = "uint64" -> j.t = "num" /\ j.v >= 0
      [] goType = "slice" -> j.t = "arr"
      [] OTHER -> FALSE

Skipped(j) == j.t \in {"absent", "null"}

Mismatch(j, goType) == ~Skipped(j) /\ ~Fits(j, goType)

Field(j, goType, old) == IF Fits(j, goType) THEN j.v ELSE old

\* Mutant: the item list of the body is not stored.
DecodeItemsAlone(j, old) == old

\* Item: Error string `json:"error"`, Status uint64 `json:"status"`
DecodeItem(o) ==
    [Error |-> Field(o.error, "string", ""), Status |-> Field(o.status, "uint64", 0)]

ItemMismatch(o) == Mismatch(o.error, "string") \/ Mismatch(o.status, "uint64")

\* Items []map[string]Item `json:"items,omitempty"`
DecodeItems(j, old) ==
    IF Fits(j, "slice")
    THEN [i \in DOMAIN j.v |-> [c \in DOMAIN j.v[i] |-> DecodeItem(j.v[i][c])]]
    ELSE old

ItemsMismatch(j) ==
    \/ Mismatch(j, "slice")
    \/ /\ Fits(j, "slice")
       /\ \E i \in DOMAIN j.v : \E c \in DOMAIN j.v[i] : ItemMismatch(j.v[i][c])

FieldTypes ==
    [error |-> "string", status |-> "uint64", errors |-> "bool", found |-> "bool",
     took |-> "uint64", items |-> "slice"]

AnyMismatch(f) ==
    \/ \E k \in Keys \ {"items"} : Mismatch(f[k], FieldTypes[k])
    \/ ItemsMismatch(f["items"])

\* Mutant: the status field of the body is not stored; the envelope keeps
\* the HTTP status.
UnmarshalResponseKeepStatus(b, resp) ==
    CASE b.kind \in {"empty", "garbage"} ->
            [nil |-> FALSE, resp |-> resp, err |-> ForeignError("SyntaxError", "")]
      [] b.kind = "null" ->
            [nil |-> TRUE, resp |-> resp, err |-> NoError]
      [] b.kind = "array" ->
            [nil |-> FALSE, resp |-> resp, err |-> ForeignError("UnmarshalTypeError", "")]
      [] OTHER ->
            [nil |-> FALSE,
             resp |-> [resp EXCEPT
                          !.Error = Field(b.f["error"], "string", @),
                          !.Errors = Field(b.f["errors"], "bool", @),
                          !.Found = Field(b.f["found"], "bool", @),
                          !.Took = Field(b.f["took"], "uint64", @),
                          !.Items = DecodeItems(b.f["items"], @)],
             err |-> IF AnyMismatch(b.f)
                     THEN ForeignError("UnmarshalTypeError", "")
                     ELSE NoError]

\* json.Unmarshal(body, &esResp) with esResp a *Response: the result is the
\* pointer (nil after a literal null), the struct it points to and the error.
\* A syntax error is found before anything is stored; a type mismatch is
\* recorded while the remaining fields are still decoded.
UnmarshalResponse(b, resp) ==
    CASE b.kind \in {"empty", "garbage"} ->
            [nil |-> FALSE, resp |-> resp, err |-> ForeignError("SyntaxError", "")]
      [] b.kind = "null" ->
            [nil |-> TRUE, resp |-> resp, err |-> NoError]
      [] b.kind = "array" ->
            [nil |-> FALSE, resp |-> resp, err |-> ForeignError("UnmarshalTypeError", "")]
      [] OTHER ->
            [nil |-> FALSE,
             resp |-> [resp EXCEPT
                          !.Error = Field(b.f["error"], "string", @),
                          !.Status = Field(b.f["status"], "uint64", @),
                          !.Errors = Field(b.f["errors"], "bool", @),
                          !.Found = Field(b.f["found"], "bool", @),
                          !.Took = Field(b.f["took"], "uint64", @),
                          !.Items = DecodeItems(b.f["items"], @)],
             err |-> IF AnyMismatch(b.f)
                     THEN ForeignError("UnmarshalTypeError", "")
                     ELSE NoError]

\* A value decoded into interface{}: numbers become float64, null becomes nil.
RawScalar(j) ==
    CASE j.t = "num" -> [t |-> "float64", v |-> j.v]
      [] j.t = "str" -> [t |-> "string", v |-> j.v]
      [] j.t = "bool" -> [t |-> "bool", v |-> j.v]
      [] OTHER -> [t |-> "nil", v |-> 0]

RawObject(o) == [k \in {x \in DOMAIN o : o[x].t # "absent"} |-> RawScalar(o[k])]

RawValue(j) ==
    IF j.t = "arr"
    THEN [t |-> "slice",
          v |-> [i \in DOMAIN j.v |-> [c \in DOMAIN j.v[i] |-> RawObject(j.v[i][c])]]]
    ELSE RawScalar(j)

\* json.Unmarshal(body, &esResp.Raw) for a body that is a JSON object
UnmarshalRaw(b) ==
    [nil |-> FALSE,
     tree |-> [k \in {x \in Keys : b.f[x].t # "absent"} |-> RawValue(b.f[k])]]

-----------------------------------------------------------------------------
(* net/url: escaping and url.Values.Encode *)

Lower ==
    {"a", "b", "c", "d", "e", "f", "g", "h", "i", "j", "k", "l", "m", "n", "o",
     "p", "q", "r", "s", "t", "u", "v", "w", "x", "y", "z"}

Upper ==
    {"A", "B", "C", "D", "E", "F", "G", "H", "I", "J", "K", "L", "M", "N", "O",
     "P", "Q", "R", "S", "T", "U", "V", "W", "X", "Y", "Z"}

\* The characters of the model in byte order (sort.Strings compares bytes).
AsciiOrder ==
    <<" ", "#", "$", "%", "&", "+", ",", "-", ".", "/",
      "0", "1", "2", "3", "4", "5", "6", "7", "8", "9",
      ":", ";", "=", "?", "@",
      "A", "B", "C", "D", "E", "F", "G", "H", "I", "J", "K", "L", "M", "N", "O",
      "P", "Q", "R", "S", "T", "U", "V", "W", "X", "Y", "Z", "_",
      "a", "b", "c", "d", "e", "f", "g", "h", "i", "j", "k", "l", "m", "n", "o",
      "p", "q", "r", "s", "t", "u", "v", "w", "x", "y", "z", "~">>

Rank(c) == CHOOSE i \in DOMAIN AsciiOrder : AsciiOrder[i] = c

RECURSIVE Less(_, _)
\* a < b on strings
Less(a, b) ==
    IF b = <<>> THEN FALSE
    ELSE IF a = <<>> THEN TRUE
    ELSE IF Rank(a[1]) # Rank(b[1]) THEN Rank(a[1]) < Rank(b[1])
    ELSE Less(Tail(a), Tail(b))

\* The two hexadecimal digits of a character's byte.
HexTable ==
    [c \in {" ", "#", "$", "%", "&", "+", ",", "/", ":", ";", "=", "?", "@"} |->
        CASE c = " " -> <<"2", "0">>
          [] c = "#" -> <<"2", "3">>
          [] c = "$" -> <<"2", "4">>
          [] c = "%" -> <<"2", "5">>
          [] c = "&" -> <<"2", "6">>
          [] c = "+" -> <<"2", "B">>
          [] c = "," -> <<"2", "C">>
          [] c = "/" -> <<"2", "F">>
          [] c = ":" -> <<"3", "A">>
          [] c = ";" -> <<"3", "B">>
          [] c = "=" -> <<"3", "D">>
          [] c = "?" -> <<"3", "F">>
          [] OTHER -> <<"4", "0">>]

Unreserved == Lower \cup Upper \cup Digits \cup {"-", "_", ".", "~"}

\* shouldEscape(c, mode): in a path only "?" of the reserved characters is
\* escaped, in a query component all of them are.
ShouldEscape(c, mode) ==
    IF c \in Unreserved THEN FALSE
    ELSE IF c \in {"$", "&", "+", ",", "/", ":", ";", "=", "?", "@"}
         THEN (IF mode = "encodePath" THEN c = "?" ELSE TRUE)
         ELSE TRUE

RECURSIVE Escape(_, _)
\* escape(s, mode)
Escape(s, mode) ==
    IF s = <<>> THEN <<>>
    ELSE (IF s[1] = " " /\ mode = "encodeQueryComponent" THEN <<"+">>
          ELSE IF ShouldEscape(s[1], mode) THEN <<"%">> \o HexTable[s[1]]
          ELSE <<s[1]>>) \o Escape(Tail(s), mode)

RECURSIVE EncodeKey(_, _)
\* The inner loop of Values.Encode: key=value for each value of the key.
EncodeKey(k, vs) ==
    IF vs = <<>> THEN <<>>
    ELSE LET rest == EncodeKey(k, Tail(vs))
             one == Escape(k, "encodeQueryComponent") \o <<"=">>
                        \o Escape(vs[1], "encodeQueryComponent")
         IN IF rest = <<>> THEN one ELSE one \o <<"&">> \o rest

\* Mutant: the keys are taken in descending order.
MaxKey(ks) == CHOOSE k \in ks : \A o \in ks \ {k} : Less(o, k)

\* The first key of sort.Strings(keys)
MinKey(ks) == CHOOSE k \in ks : \A o \in ks \ {k} : Less(k, o)

RECURSIVE EncodeKeys(_, _)
EncodeKeys(v, ks) ==
    IF ks = {} THEN <<>>
    ELSE LET k == MinKey(ks)
             one == EncodeKey(k, v[k])
             rest == EncodeKeys(v, ks \ {k})
         IN IF one = <<>> THEN rest
            ELSE IF rest = <<>> THEN one
            ELSE one \o <<"&">> \o rest

\* (v url.Values) Encode(): keys sorted, a key repeated once per value
Encode(v) == EncodeKeys(v, DOMAIN v)

\* url.Values{}
NoArgs == [k \in {} |-> <<>>]

\* (v url.Values) Add(key, value): v[key] = append(v[key], value)
Add(v, key, value) ==
    IF key \in DOMAIN v THEN [v EXCEPT ![key] = Append(@, value)]
    ELSE v @@ (key :> <<value>>)

RECURSIVE Filled(_, _)
\* The url.Values a caller holds after the Add calls s on v
Filled(v, s) ==
    IF s = <<>> THEN v ELSE Filled(Add(v, s[1].key, s[1].value), Tail(s))

\* Mutant: the "?" is written whether or not there is a query.
URLStringForceQuery(scheme, host, path, rawQuery) ==
    scheme \o <<":", "/", "/">> \o host \o Escape(path, "encodePath")
        \o <<"?">> \o rawQuery

\* (u *url.URL) String() for a URL with a scheme, a host, a path starting with
\* "/" and a raw query
URLString(scheme, host, path, rawQuery) ==
    scheme \o <<":", "/", "/">> \o host \o Escape(path, "encodePath")
        \o (IF rawQuery # <<>> THEN <<"?">> \o rawQuery ELSE <<>>)

\* fmt.Sprintf("%s:%s", req.Conn.Host, req.Conn.Port)
HostPort(c) == c.Host \o <<":">> \o c.Port

Http == <<"h", "t", "t", "p">>

\* Mutant: an empty index list leaves no empty segment behind.
URLNoEmptySegment(r, c) ==
    LET p1 == IF Len(r.IndexList) > 0 THEN <<"/">> \o Join(r.IndexList, <<",">>) ELSE <<>>
        p2 == IF Len(r.TypeList) > 0 THEN p1 \o <<"/">> \o Join(r.TypeList, <<",">>) ELSE p1
        p3 == IF Len(r.ID) > 0 THEN p2 \o <<"/">> \o r.ID ELSE p2
        path == p3 \o <<"/">> \o r.API
    IN URLString(Http, HostPort(c), path, Encode(r.ExtraArgs))

\* (req *Request) URL()
URL(r, c) ==
    LET p1 == <<"/">> \o Join(r.IndexList, <<",">>)
        p2 == IF Len(r.TypeList) > 0 THEN p1 \o <<"/">> \o Join(r.TypeList, <<",">>) ELSE p1
        p3 == IF Len(r.ID) > 0 THEN p2 \o <<"/">> \o r.ID ELSE p2
        path == p3 \o <<"/">> \o r.API
    IN URLString(Http, HostPort(c), path, Encode(r.ExtraArgs))

-----------------------------------------------------------------------------
(* Requests *)

\* NewClient(host, port)
NewClient(host, port) == [Host |-> host, Port |-> port, Client |-> "DefaultClient"]

\* A Request literal; the fields a caller leaves out are zero.
Request(method, api, indexList, typeList, id, extraArgs, query, bulkData, rawBody) ==
    [Method |-> method, API |-> api, IndexList |-> indexList, TypeList |-> typeList,
     ID |-> id, ExtraArgs |-> extraArgs, Query |-> query, BulkData |-> bulkData,
     Body |-> rawBody]

\* A value held by an interface{} that is marshalled (Request.Query,
\* Document.Fields): t is the kind of the value, a pointer followed; ptr tells
\* whether it is held by pointer, n is the number of entries of a map or of
\* fields of a struct, ok whether encoding/json can encode what it holds.
Value(t, ptr, n, ok) == [t |-> t, ptr |-> ptr, n |-> n, ok |-> ok]

\* Values of the Query field: nil, a map, and a value encoding/json cannot
\* encode (a channel).
QNil == Value("nil", FALSE, 0, TRUE)
QMap == Value("map", FALSE, 1, TRUE)
QChan == Value("chan", FALSE, 0, FALSE)

\* Other values of Document.Fields: map[string]interface{}{}, a map that
\* holds a channel, a pointer to a struct with a field, struct{}{}, "test"
EmptyMap == Value("map", FALSE, 0, TRUE)
ChanMap == Value("map", FALSE, 1, FALSE)
StructPtr == Value("struct", TRUE, 1, TRUE)
EmptyStruct == Value("struct", FALSE, 0, TRUE)
Scalar == Value("string", FALSE, 0, TRUE)

\* An element of the "actions" slice of modifyAlias: a nil map, or the map
\* {action: {"index": index, "alias": alias}}
NilEntry == [nil |-> TRUE, action |-> <<>>, index |-> <<>>, alias |-> <<>>]
Entry(action, index, alias) ==
    [nil |-> FALSE, action |-> action, index |-> index, alias |-> alias]

\* The command map of modifyAlias, lines 562-564: one key, "actions"
Command(actions) ==
    [t |-> "command", ptr |-> FALSE, n |-> 1, ok |-> TRUE, actions |-> actions]

\* encoding/json writes a nil map as null and the keys of a map in sorted
\* order: "alias" before "index".
MarshalEntry(e) ==
    IF e.nil THEN <<"n", "u", "l", "l">>
    ELSE <<"{", "\"">> \o e.action \o <<"\"", ":", "{", "\"", "a", "l", "i", "a", "s", "\"",
                                       ":", "\"">> \o e.alias
             \o <<"\"", ",", "\"", "i", "n", "d", "e", "x", "\"", ":", "\"">> \o e.index
             \o <<"\"", "}", "}">>

RECURSIVE MarshalEntries(_)
\* The elements of a slice, separated by commas
MarshalEntries(s) ==
    IF s = <<>> THEN <<>>
    ELSE IF Len(s) = 1 THEN MarshalEntry(s[1])
    ELSE MarshalEntry(s[1]) \o <<",">> \o MarshalEntries(Tail(s))

MarshalCommand(actions) ==
    <<"{", "\"", "a", "c", "t", "i", "o", "n", "s", "\"", ":", "[">>
        \o MarshalEntries(actions) \o <<"]", "}">>

\* json.Marshal(req.Query), json.Marshal(doc.Fields)
Marshal(q) ==
    CASE ~q.ok -> [ok |-> FALSE, bytes |-> <<>>]
      [] q.t = "nil" -> [ok |-> TRUE, bytes |-> <<"n", "u", "l", "l">>]
      [] q.t \in {"map", "struct"} ->
            [ok |-> TRUE,
             bytes |-> IF q.n = 0 THEN <<"{", "}">> ELSE <<"{", "q", ":", "1", "}">>]
      [] q.t = "string" -> [ok |-> TRUE, bytes |-> <<"\"", "t", "e", "s", "t", "\"">>]
      [] q.t = "command" -> [ok |-> TRUE, bytes |-> MarshalCommand(q.actions)]
      [] OTHER -> [ok |-> FALSE, bytes |-> <<>>]

\* Mutant: Query is marshalled before the body is chosen, so that its error
\* ends the call even when Query is not the body.
PostDataMarshalFirst(r) ==
    IF ~Marshal(r.Query).ok THEN Marshal(r.Query)
    ELSE IF Len(r.Body) > 0 THEN [ok |-> TRUE, bytes |-> r.Body]
    ELSE IF r.API = ApiBulk THEN [ok |-> TRUE, bytes |-> r.BulkData]
    ELSE Marshal(r.Query)

\* Mutant: the bulk stream is preferred to the raw body.
PostDataBulkFirst(r) ==
    IF r.API = ApiBulk THEN [ok |-> TRUE, bytes |-> r.BulkData]
    ELSE IF Len(r.Body) > 0 THEN [ok |-> TRUE, bytes |-> r.Body]
    ELSE Marshal(r.Query)

\* run(), lines 388-401: the body of the request, or the marshalling error
PostData(r) ==
    IF Len(r.Body) > 0 THEN [ok |-> TRUE, bytes |-> r.Body]
    ELSE IF r.API = ApiBulk THEN [ok |-> TRUE, bytes |-> r.BulkData]
    ELSE Marshal(r.Query)

\* net/http validMethod: a non-empty token
NotToken ==
    {" ", "\"", "(", ")", ",", "/", ":", ";", "<", "=", ">", "?", "@", "[", "]", "{", "}"}

ValidMethod(m) == Len(m) > 0 /\ \A i \in DOMAIN m : m[i] \notin NotToken

\* url.Parse of the string URL() built: the escaped path always parses, the
\* port must be digits.
ValidPort(port) == \A i \in DOMAIN port : port[i] \in Digits

\* http.NewRequest(req.Method, req.URL(), reader) succeeds
NewRequestOK(r, c) == (r.Method = <<>> \/ ValidMethod(r.Method)) /\ ValidPort(c.Port)

\* Mutant: the header is set for every request that carries a query.
ContentTypeWithQuery(r) ==
    IF r.Method = POST \/ r.Method = PUT \/ r.Query # QNil THEN "application/json" ELSE ""

\* run(), lines 410-412
ContentType(r) ==
    IF r.Method = POST \/ r.Method = PUT THEN "application/json" ELSE ""

NotSent == [Method |-> <<>>, URL |-> <<>>, Body |-> <<>>, ContentType |-> ""]

\* Mutant: the upper end of the range is forgotten.
HardFailureNoUpper(status) == status > 201

\* Mutant: the range starts one status too early.
HardFailureFrom201(status) == status >= 201 /\ status < 400

\* run(), line 426
HardFailure(status) == status > 201 /\ status < 400

\* Mutant: a failure of the transport is turned into a SearchError.
RespondReclassified(o) ==
    IF o.kind = "error"
    THEN [body |-> NilBody, status |-> 0, err |-> SearchError(o.msg, 0)]
    ELSE IF o.kind = "readError"
    THEN [body |-> NilBody, status |-> o.status, err |-> SearchError(o.msg, o.status)]
    ELSE IF HardFailure(o.status)
    THEN [body |-> NilBody, status |-> o.status, err |-> ErrorsNew(o.body)]
    ELSE [body |-> o.body, status |-> o.status, err |-> NoError]

\* run(), lines 414-430: what run returns for an outcome of Client.Do.  An
\* outcome is a connection error, or a response whose body could or could
\* not be read to its end.
Respond(o) ==
    IF o.kind = "error"
    THEN [body |-> NilBody, status |-> 0, err |-> ForeignError("transport", o.msg)]
    ELSE IF o.kind = "readError"
    THEN [body |-> NilBody, status |-> o.status, err |-> ForeignError("read", o.msg)]
    ELSE IF HardFailure(o.status)
    THEN [body |-> NilBody, status |-> o.status, err |-> ErrorsNew(o.body)]
    ELSE [body |-> o.body, status |-> o.status, err |-> NoError]

-----------------------------------------------------------------------------
(* Run: decoding and classification *)

Ptr(resp) == [nil |-> FALSE, r |-> resp]
NilPtr == [nil |-> TRUE, r |-> NewResponse(0)]

RECURSIVE ScanItems(_)
\* Run, lines 370-377.  The entries of one item are visited in map order,
\* which Go leaves unspecified: every entry of the first item that has an
\* error may be the one returned.
ScanItems(items) ==
    IF Len(items) = 0
    THEN {SearchError("Unknown error while bulk indexing", 0)}
    ELSE LET item == items[1]
             hits == {c \in DOMAIN item : item[c].Error # ""}
         IN IF hits # {}
            THEN {SearchError(item[c].Error, item[c].Status) : c \in hits}
            ELSE ScanItems(Tail(items))

\* Mutant: the top-level error is looked at before the bulk items.
ClassifyTopFirst(r, resp) ==
    IF resp.Error # "" THEN {SearchError(resp.Error, resp.Status)}
    ELSE IF r.API = ApiBulk /\ resp.Errors THEN ScanItems(resp.Items)
    ELSE {NoError}

\* Mutant: the top-level error is returned without the envelope's status.
ClassifyNoStatus(r, resp) ==
    IF r.API = ApiBulk /\ resp.Errors THEN ScanItems(resp.Items)
    ELSE IF resp.Error # "" THEN {SearchError(resp.Error, 0)}
    ELSE {NoError}

\* Run, lines 369-384: the errors Run may return for a decoded envelope
Classify(r, resp) ==
    IF r.API = ApiBulk /\ resp.Errors THEN ScanItems(resp.Items)
    ELSE IF resp.Error # "" THEN {SearchError(resp.Error, resp.Status)}
    ELSE {NoError}

\* Mutant: the second json.Unmarshal, into Raw, is left out.
DecodeNoRaw(r, b, resp) ==
    IF r.Method = HEAD
    THEN [resp |-> resp, err |-> NoError, panic |-> FALSE, decoded |-> FALSE]
    ELSE LET u == UnmarshalResponse(b, resp)
         IN IF u.err # NoError
            THEN [resp |-> u.resp, err |-> u.err, panic |-> FALSE, decoded |-> TRUE]
            ELSE IF u.nil
            THEN [resp |-> resp, err |-> NoError, panic |-> TRUE, decoded |-> TRUE]
            ELSE [resp |-> u.resp, err |-> NoError, panic |-> FALSE, decoded |-> TRUE]

\* Mutant: the body of a HEAD response is decoded like any other.
DecodeHead(r, b, resp) ==
    LET u == UnmarshalResponse(b, resp)
    IN IF u.err # NoError
       THEN [resp |-> u.resp, err |-> u.err, panic |-> FALSE, decoded |-> TRUE]
       ELSE IF u.nil
       THEN [resp |-> resp, err |-> NoError, panic |-> TRUE, decoded |-> TRUE]
       ELSE [resp |-> [u.resp EXCEPT !.Raw = UnmarshalRaw(b)],
             err |-> NoError, panic |-> FALSE, decoded |-> TRUE]

\* Mutant: the raw tree is attached even when the typed decoding reports a
\* field that does not fit.
DecodeRawFirst(r, b, resp) ==
    IF r.Method = HEAD
    THEN [resp |-> resp, err |-> NoError, panic |-> FALSE, decoded |-> FALSE]
    ELSE LET u == UnmarshalResponse(b, resp)
         IN IF u.err # NoError
            THEN [resp |-> IF b.kind = "object"
                           THEN [u.resp EXCEPT !.Raw = UnmarshalRaw(b)] ELSE u.resp,
                  err |-> u.err, panic |-> FALSE, decoded |-> TRUE]
            ELSE IF u.nil
            THEN [resp |-> resp, err |-> NoError, panic |-> TRUE, decoded |-> TRUE]
            ELSE [resp |-> [u.resp EXCEPT !.Raw = UnmarshalRaw(b)],
                  err |-> NoError, panic |-> FALSE, decoded |-> TRUE]

\* Run, lines 358-367: the envelope after the two json.Unmarshal calls, the
\* error that ends Run there (or none), and whether Run panics on the nil
\* pointer a literal null leaves in esResp.
Decode(r, b, resp) ==
    IF r.Method = HEAD
    THEN [resp |-> resp, err |-> NoError, panic |-> FALSE, decoded |-> FALSE]
    ELSE LET u == UnmarshalResponse(b, resp)
         IN IF u.err # NoError
            THEN [resp |-> u.resp, err |-> u.err, panic |-> FALSE, decoded |-> TRUE]
            ELSE IF u.nil
            THEN [resp |-> resp, err |-> NoError, panic |-> TRUE, decoded |-> TRUE]
            ELSE [resp |-> [u.resp EXCEPT !.Raw = UnmarshalRaw(b)],
                  err |-> NoError, panic |-> FALSE, decoded |-> TRUE]

-----------------------------------------------------------------------------
(* BulkSend: the bulk stream *)

BulkCommandIndex == <<"i", "n", "d", "e", "x">>
BulkCommandDelete == <<"d", "e", "l", "e", "t", "e">>

\* Document.ID is an interface{}: nil, a string, or something else
IDNil == [t |-> "nil", s |-> <<>>]
IDStr(s) == [t |-> "string", s |-> s]
IDChan == [t |-> "chan", s |-> <<>>]

\* A Document literal; Index holds a string in every document of the model.
Document(id, index, type, cmd, fields) ==
    [ID |-> id, Index |-> index, Type |-> type, BulkCommand |-> cmd, Fields |-> fields]

Quote(s) == <<"\"">> \o s \o <<"\"">>

\* Lines 159-165: json.Marshal of {BulkCommand: {"_index", "_type", "_id"}};
\* encoding/json writes the keys of a map in sorted order.
MarshalAction(doc) ==
    IF doc.ID.t = "chan" THEN [ok |-> FALSE, bytes |-> <<>>]
    ELSE [ok |-> TRUE,
          bytes |-> <<"{">> \o Quote(doc.BulkCommand) \o <<":", "{">>
                      \o Quote(<<"_", "i", "d">>) \o <<":">>
                      \o (IF doc.ID.t = "nil" THEN <<"n", "u", "l", "l">>
                          ELSE Quote(doc.ID.s)) \o <<",">>
                      \o Quote(<<"_", "i", "n", "d", "e", "x">>) \o <<":">>
                      \o Quote(doc.Index) \o <<",">>
                      \o Quote(<<"_", "t", "y", "p", "e">>) \o <<":">>
                      \o Quote(doc.Type) \o <<"}", "}">>]

FieldsFormatError ==
    ForeignError("fmt", "Document fields not in struct or map[string]interface{} format")

MarshalError == ForeignError("Marshal", "unsupported type")

\* Mutant: a payload that is neither a map nor a struct is marshalled and
\* sent like any other.
FieldsCaseLenient(fields) ==
    IF fields.t = "nil" THEN "skip"
    ELSE IF fields.t \in {"map", "struct"} /\ fields.n = 0 THEN "skip"
    ELSE "source"

\* Lines 174-190: what the loop does with doc.Fields: "skip" (no source
\* line), "error" (return), or "source" (marshal it).
FieldsCase(fields) ==
    IF fields.t = "nil" THEN "skip"
    ELSE IF fields.t = "map" /\ ~fields.ptr
    THEN (IF fields.n = 0 THEN "skip" ELSE "source")
    ELSE IF fields.t # "struct" THEN "error"
    ELSE IF fields.n = 0 THEN "skip"
    ELSE "source"

RECURSIVE Fill(_, _, _, _)
\* The loop of lines 158-200 from the k-th document on; i is the next free
\* slot of bulkData (slots are counted from 1 here).
Fill(docs, k, bulkData, i) ==
    IF k > Len(docs) THEN [err |-> NoError, bulkData |-> bulkData]
    ELSE LET doc == docs[k]
             action == MarshalAction(doc)
             withAction == [bulkData EXCEPT ![i] = action.bytes]
             sources == Marshal(doc.Fields)
         IN IF ~action.ok THEN [err |-> MarshalError, bulkData |-> bulkData]
            ELSE IF FieldsCase(doc.Fields) = "skip"
            THEN Fill(docs, k + 1, withAction, i + 1)
            ELSE IF FieldsCase(doc.Fields) = "error"
            THEN [err |-> FieldsFormatError, bulkData |-> withAction]
            ELSE IF ~sources.ok THEN [err |-> MarshalError, bulkData |-> withAction]
            ELSE Fill(docs, k + 1, [withAction EXCEPT ![i + 1] = sources.bytes], i + 2)

\* Mutant: no slot is kept for the trailing newline.
BulkDataUnterminated(docs) ==
    LET slots == [j \in 1..(Len(docs) * 2) |-> <<>>]
        filled == Fill(docs, 1, slots, 1)
    IN [err |-> filled.err, bytes |-> Join(filled.bulkData, <<"\n">>)]

\* Mutant: a newline is written behind the joined slots.
BulkDataTerminated(docs) ==
    LET slots == [j \in 1..(Len(docs) * 2 + 1) |-> <<>>]
        filled == Fill(docs, 1, slots, 1)
    IN [err |-> filled.err, bytes |-> Join(filled.bulkData, <<"\n">>) \o <<"\n">>]

\* Lines 155-210: make([][]byte, len(documents)*2+1), the loop, the last slot
\* set to nil, bytes.Join(bulkData, "\n"). A nil slot is an empty line.
BulkData(docs) ==
    LET slots == [j \in 1..(Len(docs) * 2 + 1) |-> <<>>]
        filled == Fill(docs, 1, slots, 1)
        bulkData == [filled.bulkData EXCEPT ![Len(slots)] = <<>>]
    IN [err |-> filled.err, bytes |-> Join(bulkData, <<"\n">>)]

-----------------------------------------------------------------------------
(* The aggregation view: Aggregation and Bucket are map[string]interface{} *)

\* Values an interface{} holds after json.Unmarshal
INil == [t |-> "nil", v |-> 0]
IStr(s) == [t |-> "string", v |-> s]
IFloat(n) == [t |-> "float64", v |-> n]
ISlice(s) == [t |-> "slice", v |-> s]
IMap(f) == [t |-> "map", v |-> f]

\* A Go map value: nil or not, and its entries
GoMap(f) == [nil |-> FALSE, m |-> f]
NilMap == [nil |-> TRUE, m |-> <<>>]
EmptyEntries == [k \in {} |-> INil]

Returns(v) == [panic |-> FALSE, result |-> v]
Panics == [panic |-> TRUE, result |-> <<>>]

\* Mutant: the buckets are returned in reverse order.
BucketsReversed(a) ==
    IF "buckets" \notin DOMAIN a THEN Returns(<<>>)
    ELSE IF a["buckets"].t # "slice" THEN Panics
    ELSE IF \E i \in DOMAIN a["buckets"].v : a["buckets"].v[i].t # "map" THEN Panics
    ELSE LET bs == a["buckets"].v
         IN Returns([i \in DOMAIN bs |-> GoMap(bs[Len(bs) + 1 - i].v)])

\* (a Aggregation) Buckets(), lines 459-468: the type assertions of lines 462
\* and 463 panic when the value is of another type.
Buckets(a) ==
    IF "buckets" \notin DOMAIN a THEN Returns(<<>>)
    ELSE IF a["buckets"].t # "slice" THEN Panics
    ELSE IF \E i \in DOMAIN a["buckets"].v : a["buckets"].v[i].t # "map" THEN Panics
    ELSE Returns([i \in DOMAIN a["buckets"].v |-> GoMap(a["buckets"].v[i].v)])

\* (b Bucket) Key(), lines 471-473: b["key"], nil when there is no such entry
Key(b) == IF "key" \in DOMAIN b THEN Returns(b["key"]) ELSE Returns(INil)

\* (b Bucket) DocCount(), lines 476-478: uint64(b["doc_count"].(float64))
DocCount(b) ==
    IF "doc_count" \in DOMAIN b /\ b["doc_count"].t = "float64"
    THEN Returns(b["doc_count"].v)
    ELSE Panics

\* Mutant: a bucket without the entry gives a nil node.
AggregationNil(b, name) ==
    IF name \in DOMAIN b
    THEN (IF b[name].t = "map" THEN Returns(GoMap(b[name].v)) ELSE Panics)
    ELSE Returns(NilMap)

\* (b Bucket) Aggregation(name), lines 481-486: the type assertion of line
\* 483 panics when the entry is not a map.
Aggregation(b, name) ==
    IF name \in DOMAIN b
    THEN (IF b[name].t = "map" THEN Returns(GoMap(b[name].v)) ELSE Panics)
    ELSE Returns(GoMap(EmptyEntries))

-----------------------------------------------------------------------------
(* The inputs of the model *)

Hosts == {<<"h">>}
Ports == {<<"9">>, <<"x">>}

Methods == {GET, POST, PUT, DELETE, HEAD, BadMethod}
Apis == {<<>>, ApiBulk}
Queries == {QNil, QMap, QChan}
RawBodies == {<<>>, <<"c", "1">>}
BulkDatas == {<<>>, <<"{", "}", "\n">>}

\* The requests a caller runs through the dispatcher
Requests ==
    {Request(m, a, <<<<"i">>>>, <<>>, <<>>, NoArgs, q, bd, rb) :
        m \in Methods, a \in Apis, q \in Queries, bd \in BulkDatas, rb \in RawBodies}

Names == {<<"a">>, <<"b">>, <<"a", " ", "?">>}
TypeNames == {<<"c">>, <<"d">>}
Ids == {<<>>, <<"1", "2", "3", "4">>, <<"x", "?">>}
UrlApis == {<<>>, ApiBulk, <<"?">>}

Lists(S) == UNION {[1..n -> S] : n \in 0..MaxList}

Version == <<"v", "e", "r", "s", "i", "o", "n">>

\* url.Values: a map from a key to its list of values
ArgSets ==
    {NoArgs,
     (Version :> <<<<"1">>>>),
     (<<"k">> :> <<>>),
     (<<"b">> :> <<<<"1">>, <<"2", " ">>>>) @@ (<<"a", "=">> :> <<<<"/">>>>)}

Pair(k, v) == [key |-> k, value |-> v]

\* The Add calls a caller makes on the url.Values before it builds the request
AddCalls ==
    {<<>>,
     <<Pair(<<"b">>, <<"1">>), Pair(<<"a", "=">>, <<"/">>), Pair(<<"b">>, <<"2", " ">>)>>,
     <<Pair(<<"a", "=">>, <<"/">>), Pair(<<"b">>, <<"1">>), Pair(<<"b">>, <<"2", " ">>)>>}

\* The requests whose URL is built
UrlRequests ==
    {Request(GET, a, il, tl, id, ea, QNil, <<>>, <<>>) :
        a \in UrlApis, il \in Lists(Names), tl \in Lists(TypeNames), id \in Ids,
        ea \in ArgSets}

\* The documents of a bulk call: index operations with a map, a pointer to
\* a struct and an empty map; deletes without and with a payload; a string
\* payload, a payload and an id that encoding/json cannot encode.
Docs ==
    {Document(IDStr(<<"1">>), <<"i">>, <<"t">>, BulkCommandIndex, QMap),
     Document(IDNil, <<"i">>, <<"t">>, BulkCommandIndex, StructPtr),
     Document(IDStr(<<"3">>), <<"i">>, <<"t">>, BulkCommandIndex, EmptyMap),
     Document(IDStr(<<"1">>), <<"i">>, <<"t">>, BulkCommandDelete, QNil),
     Document(IDStr(<<"2">>), <<"i">>, <<"t">>, BulkCommandDelete, QMap),
     Document(IDStr(<<"5">>), <<"i">>, <<"t">>, BulkCommandIndex, Scalar),
     Document(IDStr(<<"6">>), <<"i">>, <<"t">>, BulkCommandIndex, ChanMap),
     Document(IDChan, <<"i">>, <<"t">>, BulkCommandIndex, QMap)}

DocLists == UNION {[1..n -> Docs] : n \in 0..MaxDocs}

\* The documents handed to Client.Index
IndexDocs ==
    {Document(id, <<"i">>, <<"t">>, <<>>, f) :
        id \in {IDNil, IDStr(<<"1", "2", "3", "4">>), IDStr(<<>>), IDChan},
        f \in {QMap, EmptyStruct, Scalar, QChan}}

\* The buckets of the terms aggregation of TestAggregations, a bucket with
\* neither "key" nor a numeric "doc_count", and things that are no bucket
FooBucket ==
    IMap([key |-> IStr("foo"), doc_count |-> IFloat(3),
          age |-> IMap([count |-> IFloat(1), sum |-> IFloat(25)])])
BarBucket ==
    IMap([key |-> IStr("bar"), doc_count |-> IFloat(1),
          age |-> IMap([count |-> IFloat(1), sum |-> IFloat(30)])])
BareBucket == IMap([doc_count |-> IStr("3")])

BucketValues == {FooBucket, BarBucket, BareBucket, IStr("foo"), INil}

BucketLists == UNION {[1..n -> BucketValues] : n \in 0..MaxBuckets}

\* Aggregation nodes: a stats node without "buckets", nodes with a list under
\* "buckets", nodes with something else under "buckets"
Nodes ==
    {[count |-> IFloat(2), sum |-> IFloat(55)]}
        \cup {[buckets |-> ISlice(l)] : l \in BucketLists}
        \cup {[buckets |-> x] : x \in {INil, IStr("none"), FooBucket}}

AggNames == {"age", "key", "doc_count", "missing"}

Statuses == {100, 200, 201, 202, 399, 400, 404}

OkItem == [error |-> JAbsent, status |-> JNum(201)]
Conflict == [error |-> JStr("conflict"), status |-> JNum(409)]
Missing == [error |-> JStr("missing"), status |-> JNum(404)]

\* One element of "items": a map from the action to its result
ItemMaps ==
    {[index |-> OkItem], [index |-> Conflict], [index |-> Conflict, delete |-> Missing]}

ItemLists == UNION {[1..n -> ItemMaps] : n \in 0..MaxItems}

NoSuchIndex == "index_not_found_exception: no such index [x]"

\* Bodies of single-document and index calls
PlainBodies ==
    {Object([AllAbsent EXCEPT !["error"] = e, !["status"] = s, !["found"] = f]) :
        e \in {JAbsent, JStr(NoSuchIndex), JNum(5)},
        s \in {JAbsent, JNum(404), JStr("404")},
        f \in {JAbsent, JBool(FALSE)}}

\* Bodies of bulk calls
BulkBodies ==
    {Object([AllAbsent EXCEPT !["errors"] = JBool(es), !["items"] = JArr(it),
                              !["error"] = e, !["took"] = JNum(3)]) :
        es \in BOOLEAN, it \in ItemLists, e \in {JAbsent, JStr(NoSuchIndex)}}

\* Bulk bodies of a server that sends a number as a string
OddBodies ==
    {Object([AllAbsent EXCEPT !["errors"] = JBool(TRUE), !["items"] = JArr(it),
                              !["took"] = JStr("3ms")]) :
        it \in {<<>>, <<[index |-> Conflict]>>}}

\* Bodies with the found flag of a single document set, without and with
\* an item list
FoundBodies ==
    {Object([AllAbsent EXCEPT !["found"] = JBool(TRUE), !["items"] = it]) :
        it \in {JAbsent, JArr(<<[index |-> OkItem]>>)}}

Bodies == {EmptyBody, GarbageBody, NullBody, ArrayBody} \cup PlainBodies \cup BulkBodies
        \cup OddBodies \cup FoundBodies

\* What Client.Do and the reading of the response body may give
Outcomes ==
    {[kind |-> "error", msg |-> m, status |-> 0, body |-> NilBody] :
        m \in {"no such host", "timeout"}}
    \cup {[kind |-> "readError", msg |-> "unexpected EOF", status |-> s, body |-> NilBody] :
        s \in Statuses}
    \cup {[kind |-> "response", msg |-> "", status |-> s, body |-> b] :
        s \in Statuses, b \in Bodies}

-----------------------------------------------------------------------------
(* The state machine: one caller at a time *)

\* The callers that share the Client, and a caller between two calls
\* The goroutines that share the Client
Procs == {"p", "q"}

\* No call on the aggregation tree
NoView ==
    [call |-> "none", recv |-> <<>>, name |-> "", result |-> <<>>, list |-> <<>>, i |-> 0]

NoOutcome == [kind |-> "none", msg |-> "", status |-> 0, body |-> NilBody]

ZeroRequest == Request(<<>>, <<>>, <<>>, <<>>, <<>>, NoArgs, QNil, <<>>, <<>>)

NoReply == [body |-> NilBody, status |-> 0, err |-> NoError]

\* A goroutine that is in no call: the locals of Run and run() do not exist
IdleProc ==
    [pc |-> "idle", op |-> "none", arg |-> <<>>, req |-> ZeroRequest, sent |-> NotSent,
     via |-> "", out |-> NoOutcome, reply |-> NoReply, esResp |-> NilPtr, err |-> NoError]

NoAliasCall == [action |-> <<>>, alias |-> <<>>, indexes |-> <<>>]

Idle ==
    /\ pc = "idle"
    /\ op = "none"
    /\ req = ZeroRequest
    /\ postData = <<>>
    /\ sent = NotSent
    /\ calls = 0
    /\ out = NoOutcome
    /\ body = NilBody
    /\ statusCode = 0
    /\ runErr = NoError
    /\ esResp = NilPtr
    /\ err = NoError
    /\ decoded = FALSE
    /\ classified = FALSE
    /\ exists = FALSE
    /\ url = <<>>
    /\ inserted = <<>>
    /\ documents = <<>>
    /\ agg = NoView
    /\ aliasCall = NoAliasCall

\* The values of one call are dropped; the Client stays.
Reset ==
    /\ pc' = "idle"
    /\ op' = "none"
    /\ req' = ZeroRequest
    /\ postData' = <<>>
    /\ sent' = NotSent
    /\ calls' = 0
    /\ out' = NoOutcome
    /\ body' = NilBody
    /\ statusCode' = 0
    /\ runErr' = NoError
    /\ esResp' = NilPtr
    /\ err' = NoError
    /\ decoded' = FALSE
    /\ classified' = FALSE
    /\ exists' = FALSE
    /\ url' = <<>>
    /\ inserted' = <<>>
    /\ documents' = <<>>
    /\ agg' = NoView
    /\ aliasCall' = NoAliasCall
    /\ UNCHANGED <<client, procs>>

Init ==
    /\ \E h \in Hosts, p \in Ports : client = NewClient(h, p)
    /\ Idle
    /\ procs = [p \in Procs |-> IdleProc]

\* What a call of Run leaves alone until run() starts.
frame == <<client, postData, sent, calls, out, body, statusCode, runErr, esResp, err,
           decoded, classified, exists, url, inserted, documents, agg, procs, aliasCall>>

\* A caller fills in a Request and calls its Run method.
CallRun ==
    /\ pc = "idle"
    /\ \E r \in Requests : req' = r
    /\ op' = "Run"
    /\ pc' = "run"
    /\ UNCHANGED frame

\* (c *Client) IndicesExist(indexes), lines 518-524
IndicesExist ==
    /\ pc = "idle"
    /\ \E il \in Lists(Names) :
          req' = Request(HEAD, <<>>, il, <<>>, <<>>, NoArgs, QNil, <<>>, <<>>)
    /\ op' = "IndicesExist"
    /\ pc' = "run"
    /\ UNCHANGED frame

\* (c *Client) AliasExists(alias), lines 598-604
AliasExists ==
    /\ pc = "idle"
    /\ \E alias \in Names :
          req' = Request(HEAD, <<"_", "a", "l", "i", "a", "s", "/">> \o alias, <<>>,
                         <<>>, <<>>, NoArgs, QNil, <<>>, <<>>)
    /\ op' = "AliasExists"
    /\ pc' = "run"
    /\ UNCHANGED frame

ScrollIDs == {<<>>, <<"c", "1">>, <<"c", "2">>}

\* Mutant: the engine remembers the cursor of a scroll that is under way
\* and sends that one.
ScrollRequestRemembered(scrollID) ==
    LET open == {q \in Procs : procs[q].op = "Scroll" /\ procs[q].pc # "run"}
    IN Request(POST, <<"_", "s", "e", "a", "r", "c", "h", "/", "s", "c", "r", "o", "l",
                       "l">>, <<>>, <<>>, <<>>,
               (<<"s", "c", "r", "o", "l", "l">> :> <<<<"1", "m">>>>),
               QNil, <<>>,
               IF open = {} THEN scrollID ELSE procs[CHOOSE q \in open : TRUE].arg)

\* The Request literal of Scroll, lines 284-293
ScrollRequest(scrollID) ==
    Request(POST, <<"_", "s", "e", "a", "r", "c", "h", "/", "s", "c", "r", "o", "l", "l">>,
            <<>>, <<>>, <<>>, (<<"s", "c", "r", "o", "l", "l">> :> <<<<"1", "m">>>>),
            QNil, <<>>, scrollID)

\* (c *Client) Scroll(scrollID, timeout), lines 283-295
Scroll ==
    /\ pc = "idle"
    /\ \E id \in ScrollIDs : req' = ScrollRequest(id)
    /\ op' = "Scroll"
    /\ pc' = "run"
    /\ UNCHANGED frame

\* (c *Client) BulkSend(documents), lines 136-211: the bulk stream is built
\* and handed to Run, or an error is returned at once.
BulkSend ==
    /\ pc = "idle"
    /\ op' = "BulkSend"
    /\ \E docs \in DocLists :
          /\ documents' = docs
          /\ LET b == BulkData(docs)
             IN IF b.err # NoError
                THEN /\ esResp' = Ptr(NewResponse(0))
                     /\ err' = b.err
                     /\ pc' = "done"
                     /\ UNCHANGED req
                ELSE /\ req' = Request(POST, ApiBulk, <<>>, <<>>, <<>>, NoArgs, QNil,
                                       b.bytes, <<>>)
                     /\ pc' = "run"
                     /\ UNCHANGED <<esResp, err>>
    /\ UNCHANGED <<client, postData, sent, calls, out, body, statusCode, runErr, decoded,
                   classified, exists, url, inserted, agg, procs, aliasCall>>

\* (c *Client) Index(d, extraArgs), lines 314-329; d.ID.(string) panics when
\* the ID holds something else than a string.
Index ==
    /\ pc = "idle"
    /\ op' = "Index"
    /\ \E d \in IndexDocs :
          /\ documents' = <<d>>
          /\ IF d.ID.t = "nil"
             THEN /\ req' = Request(POST, <<>>, <<d.Index>>, <<d.Type>>, <<>>, NoArgs,
                                    d.Fields, <<>>, <<>>)
                  /\ pc' = "run"
             ELSE IF d.ID.t = "string"
             THEN /\ req' = Request(PUT, <<>>, <<d.Index>>, <<d.Type>>, d.ID.s, NoArgs,
                                    d.Fields, <<>>, <<>>)
                  /\ pc' = "run"
             ELSE /\ pc' = "panic"
                  /\ UNCHANGED req
    /\ UNCHANGED <<client, postData, sent, calls, out, body, statusCode, runErr, esResp,
                   err, decoded, classified, exists, url, inserted, agg, procs, aliasCall>>

\* (req *Request) run(), lines 387-431
run ==
    /\ pc = "run"
    /\ pc' = "Run"
    /\ LET data == PostData(req)
       IN IF ~data.ok
          THEN /\ runErr' = ForeignError("Marshal", "unsupported type")
               /\ UNCHANGED <<postData, url, sent, calls, out, body, statusCode>>
          ELSE /\ postData' = data.bytes
               /\ url' = URL(req, client)
               /\ IF ~NewRequestOK(req, client)
                  THEN /\ runErr' = ForeignError("NewRequest", "invalid")
                       /\ UNCHANGED <<sent, calls, out, body, statusCode>>
                  ELSE \E o \in Outcomes :
                          /\ out' = o
                          /\ sent' = [Method |-> req.Method, URL |-> url',
                                      Body |-> data.bytes,
                                      ContentType |-> ContentType(req)]
                          /\ calls' = calls + 1
                          /\ body' = Respond(o).body
                          /\ statusCode' = Respond(o).status
                          /\ runErr' = Respond(o).err
    /\ UNCHANGED <<op, client, req, esResp, err, decoded, classified, exists, inserted,
                   documents, agg, procs, aliasCall>>

\* Where Run's return leads: back to the caller, or to the comparison the
\* existence checks make.
After == IF op \in {"IndicesExist", "AliasExists"} THEN "exists" ELSE "done"

\* (req *Request) Run(), lines 351-385, after run() returned
Run ==
    /\ pc = "Run"
    /\ IF runErr # NoError
       THEN /\ esResp' = Ptr(NewResponse(statusCode))
            /\ err' = runErr
            /\ pc' = After
            /\ UNCHANGED <<decoded, classified>>
       ELSE LET d == Decode(req, body, NewResponse(statusCode))
            IN /\ decoded' = d.decoded
               /\ IF d.panic
                  THEN /\ pc' = "panic"
                       /\ UNCHANGED <<esResp, err, classified>>
                  ELSE IF d.err # NoError
                  THEN /\ esResp' = Ptr(d.resp)
                       /\ err' = d.err
                       /\ pc' = After
                       /\ UNCHANGED classified
                  ELSE /\ esResp' = Ptr(d.resp)
                       /\ classified' = TRUE
                       /\ err' \in Classify(req, d.resp)
                       /\ pc' = After
    /\ UNCHANGED <<op, client, req, postData, sent, calls, out, body, statusCode, runErr,
                   exists, url, inserted, documents, agg, procs, aliasCall>>

\* IndicesExist line 526, AliasExists line 606: return resp.Status == 200, err
ExistsReturn ==
    /\ pc = "exists"
    /\ pc' = "done"
    /\ exists' = (esResp.r.Status = 200)
    /\ UNCHANGED <<op, client, req, postData, sent, calls, out, body, statusCode, runErr,
                   esResp, err, decoded, classified, url, inserted, documents, agg, procs, aliasCall>>

\* The caller has its result (or the goroutine died in a panic); the next
\* call starts from fresh values.
Return ==
    /\ pc \in {"done", "panic"}
    /\ Reset

Next == CallRun \/ IndicesExist \/ AliasExists \/ Scroll \/ run \/ Run \/ ExistsReturn \/ Return

Spec == Init /\ [][Next]_vars

-----------------------------------------------------------------------------
(* The document calls: BulkSend and Index *)

NextDocuments == BulkSend \/ Index \/ run \/ Run \/ Return

SpecDocuments == Init /\ [][NextDocuments]_vars

-----------------------------------------------------------------------------
(* The alias calls: AddAlias and RemoveAlias *)

ApiAliases == <<"_", "a", "l", "i", "a", "s", "e", "s">>
ActionAdd == <<"a", "d", "d">>
ActionRemove == <<"r", "e", "m", "o", "v", "e">>

AliasNames == {<<"a">>}
IndexLists == Lists({<<"i">>, <<"j">>})

\* (c *Client) modifyAlias(action, alias, indexes), lines 561-583: the slice
\* is made with one element, the zero value of a map, and one map is appended
\* per index.
modifyAlias(action, alias, indexes) ==
    Request(POST, ApiAliases, <<>>, <<>>, <<>>, NoArgs,
            Command(<<NilEntry>> \o [i \in DOMAIN indexes |-> Entry(action, indexes[i], alias)]),
            <<>>, <<>>)

\* (c *Client) AddAlias(alias, indexes), lines 586-588
AddAlias ==
    /\ pc = "idle"
    /\ op' = "AddAlias"
    /\ pc' = "run"
    /\ \E alias \in AliasNames, indexes \in IndexLists :
          /\ aliasCall' = [action |-> ActionAdd, alias |-> alias, indexes |-> indexes]
          /\ req' = modifyAlias(ActionAdd, alias, indexes)
    /\ UNCHANGED <<client, postData, sent, calls, out, body, statusCode, runErr, esResp,
                   err, decoded, classified, exists, url, inserted, documents, agg, procs>>

\* (c *Client) RemoveAlias(alias, indexes), lines 591-593
RemoveAlias ==
    /\ pc = "idle"
    /\ op' = "RemoveAlias"
    /\ pc' = "run"
    /\ \E alias \in AliasNames, indexes \in IndexLists :
          /\ aliasCall' = [action |-> ActionRemove, alias |-> alias, indexes |-> indexes]
          /\ req' = modifyAlias(ActionRemove, alias, indexes)
    /\ UNCHANGED <<client, postData, sent, calls, out, body, statusCode, runErr, esResp,
                   err, decoded, classified, exists, url, inserted, documents, agg, procs>>

NextAlias == AddAlias \/ RemoveAlias \/ run \/ Run \/ Return

SpecAlias == Init /\ [][NextAlias]_vars

-----------------------------------------------------------------------------
(* The traversal of an aggregation tree by one caller *)

\* A call, its receiver, argument and result; for a call on a bucket, the
\* list the bucket was taken from and its place in it
View(call, recv, name, result, list, i) ==
    [call |-> call, recv |-> recv, name |-> name, result |-> result, list |-> list,
     i |-> i]

rest == <<op, client, req, postData, sent, calls, out, body, statusCode, runErr, esResp,
          err, decoded, classified, exists, url, inserted, documents, procs,
          aliasCall>>

\* The caller takes the buckets of a node of Response.Aggregations.
CallBuckets ==
    /\ pc = "idle"
    /\ \E a \in Nodes :
          /\ agg' = View("Buckets", a, "", Buckets(a).result, <<>>, 0)
          /\ pc' = IF Buckets(a).panic THEN "panic" ELSE "buckets"
    /\ UNCHANGED rest

\* The caller reads the key of one of the buckets it got.
CallKey ==
    /\ pc = "buckets"
    /\ \E i \in DOMAIN agg.result :
          /\ agg' = View("Key", agg.result[i].m, "", Key(agg.result[i].m).result,
                           agg.result, i)
          /\ pc' = "view"
    /\ UNCHANGED rest

\* The caller reads the document count of one of the buckets it got.
CallDocCount ==
    /\ pc = "buckets"
    /\ \E i \in DOMAIN agg.result :
          LET d == DocCount(agg.result[i].m)
          IN /\ agg' = View("DocCount", agg.result[i].m, "", d.result, agg.result, i)
             /\ pc' = IF d.panic THEN "panic" ELSE "view"
    /\ UNCHANGED rest

\* The caller takes a nested aggregation of one of the buckets it got.
CallAggregation ==
    /\ pc = "buckets"
    /\ \E i \in DOMAIN agg.result, name \in AggNames :
          LET n == Aggregation(agg.result[i].m, name)
          IN /\ agg' = View("Aggregation", agg.result[i].m, name, n.result, agg.result, i)
             /\ pc' = IF n.panic THEN "panic" ELSE "view"
    /\ UNCHANGED rest

\* The caller is done with the value, or its goroutine died in the panic.
ReturnView ==
    /\ pc \in {"buckets", "view", "panic"}
    /\ Reset

NextAggregation ==
    CallBuckets \/ CallKey \/ CallDocCount \/ CallAggregation \/ ReturnView

SpecAggregation == Init /\ [][NextAggregation]_vars

-----------------------------------------------------------------------------
(* Several goroutines on one Client *)

HTTPClients == {"DefaultClient", "cl"}

\* The requests the goroutines run themselves: a delete of one document, a
\* search with a query, a bulk call
SharedRequests ==
    {Request(DELETE, <<>>, <<<<"i">>>>, <<<<"t">>>>, <<"1">>, NoArgs, QNil, <<>>, <<>>),
     Request(GET, <<"_", "s", "e", "a", "r", "c", "h">>, <<<<"i">>>>, <<>>, <<>>, NoArgs,
             QMap, <<>>, <<>>),
     Request(POST, ApiBulk, <<>>, <<>>, <<>>, NoArgs, QNil, <<"{", "}", "\n">>, <<>>)}

\* What the server answers to them
SharedOutcomes ==
    {[kind |-> "error", msg |-> "timeout", status |-> 0, body |-> NilBody],
     [kind |-> "response", msg |-> "", status |-> 200,
      body |-> Object([AllAbsent EXCEPT !["found"] = JBool(FALSE)])],
     [kind |-> "response", msg |-> "", status |-> 404,
      body |-> Object([AllAbsent EXCEPT !["error"] = JStr(NoSuchIndex),
                                        !["status"] = JNum(404)])],
     [kind |-> "response", msg |-> "", status |-> 200,
      body |-> Object([AllAbsent EXCEPT !["errors"] = JBool(TRUE),
                                        !["items"] = JArr(<<[index |-> Conflict,
                                                             delete |-> Missing]>>),
                                        !["took"] = JNum(3)])]}

\* The variables of the single caller
single == <<pc, op, req, postData, sent, calls, out, body, statusCode, runErr, esResp,
            err, decoded, classified, exists, url, inserted, documents, agg,
            aliasCall>>

\* (c *Client) WithHTTPClient(cl), lines 41-44
WithHTTPClient ==
    /\ \E cl \in HTTPClients : client' = [client EXCEPT !.Client = cl]
    /\ UNCHANGED <<single, procs>>

\* A goroutine calls Scroll, lines 283-295, up to the call of Run
GoScroll ==
    /\ \E p \in Procs, id \in ScrollIDs :
          /\ procs[p].pc = "idle"
          /\ procs' = [procs EXCEPT ![p] = [@ EXCEPT !.pc = "run", !.op = "Scroll",
                                                     !.arg = id,
                                                     !.req = ScrollRequest(id)]]
    /\ UNCHANGED <<single, client>>

\* A goroutine calls Run on a Request it built
GoRun ==
    /\ \E p \in Procs, r \in SharedRequests :
          /\ procs[p].pc = "idle"
          /\ procs' = [procs EXCEPT ![p] = [@ EXCEPT !.pc = "run", !.op = "Run",
                                                     !.arg = r, !.req = r]]
    /\ UNCHANGED <<single, client>>

\* run(), lines 388-414: the body and the URL are built and the request is
\* handed to the HTTP client the Client holds at that moment.
GoSend ==
    /\ \E p \in Procs :
          /\ procs[p].pc = "run"
          /\ LET r == procs[p].req
                 data == PostData(r)
             IN IF ~data.ok
                THEN procs' = [procs EXCEPT ![p] =
                         [@ EXCEPT !.pc = "Run",
                                   !.reply = [NoReply EXCEPT !.err =
                                       ForeignError("Marshal", "unsupported type")]]]
                ELSE IF ~NewRequestOK(r, client)
                THEN procs' = [procs EXCEPT ![p] =
                         [@ EXCEPT !.pc = "Run",
                                   !.reply = [NoReply EXCEPT !.err =
                                       ForeignError("NewRequest", "invalid")]]]
                ELSE procs' = [procs EXCEPT ![p] =
                         [@ EXCEPT !.pc = "Do",
                                   !.via = client.Client,
                                   !.sent = [Method |-> r.Method, URL |-> URL(r, client),
                                             Body |-> data.bytes,
                                             ContentType |-> ContentType(r)]]]
    /\ UNCHANGED <<single, client>>

\* run(), lines 414-430: Do returns and the body is read
GoReceive ==
    /\ \E p \in Procs, o \in SharedOutcomes :
          /\ procs[p].pc = "Do"
          /\ procs' = [procs EXCEPT ![p] = [@ EXCEPT !.pc = "Run", !.out = o,
                                                     !.reply = Respond(o)]]
    /\ UNCHANGED <<single, client>>

\* Run, lines 351-385, after run() returned
GoFinish ==
    /\ \E p \in Procs :
          /\ procs[p].pc = "Run"
          /\ LET r == procs[p].req
                 reply == procs[p].reply
                 d == Decode(r, reply.body, NewResponse(reply.status))
             IN IF reply.err # NoError
                THEN procs' = [procs EXCEPT ![p] =
                         [@ EXCEPT !.pc = "done", !.err = reply.err,
                                   !.esResp = Ptr(NewResponse(reply.status))]]
                ELSE IF d.panic
                THEN procs' = [procs EXCEPT ![p] = [@ EXCEPT !.pc = "panic"]]
                ELSE IF d.err # NoError
                THEN procs' = [procs EXCEPT ![p] =
                         [@ EXCEPT !.pc = "done", !.err = d.err, !.esResp = Ptr(d.resp)]]
                ELSE \E e \in Classify(r, d.resp) :
                        procs' = [procs EXCEPT ![p] =
                            [@ EXCEPT !.pc = "done", !.err = e, !.esResp = Ptr(d.resp)]]
    /\ UNCHANGED <<single, client>>

\* The goroutine has its result; its locals are gone.
GoReturn ==
    /\ \E p \in Procs :
          /\ procs[p].pc \in {"done", "panic"}
          /\ procs' = [procs EXCEPT ![p] = IdleProc]
    /\ UNCHANGED <<single, client>>

NextShared ==
    WithHTTPClient \/ GoScroll \/ GoRun \/ GoSend \/ GoReceive \/ GoFinish \/ GoReturn

SpecShared == Init /\ [][NextShared]_vars

-----------------------------------------------------------------------------
(* The URL builder on its own *)

\* A caller fills the extra parameters and builds the URL of a request.
CallURL ==
    /\ pc = "idle"
    /\ \E r \in UrlRequests, s \in AddCalls :
          /\ inserted' = s
          /\ req' = [r EXCEPT !.ExtraArgs = Filled(@, s)]
          /\ url' = URL(req', client)
    /\ pc' = "url"
    /\ op' = "URL"
    /\ UNCHANGED <<client, postData, sent, calls, out, body, statusCode, runErr, esResp,
                   err, decoded, classified, exists, documents, agg, procs, aliasCall>>

ReturnURL ==
    /\ pc = "url"
    /\ Reset

NextURL == CallURL \/ ReturnURL

SpecURL == Init /\ [][NextURL]_vars

-----------------------------------------------------------------------------
(* Properties of Run: the error classification *)

\* Run has returned to its caller.
Returned == pc = "done"

\* The call was answered, the status let the body through and the decoding
\* stage was passed: the body was decoded without error, or skipped for HEAD.
Answered == out.kind = "response" /\ ~(out.status > 201 /\ out.status < 400)

BodyDecodes == out.body.kind = "object" /\ ~AnyMismatch(out.body.f)

DecodeStagePassed == Answered /\ (req.Method = HEAD \/ BodyDecodes)

BulkRule == req.API = ApiBulk /\ esResp.r.Errors

\* The items of the envelope that carry an error message
Failing == {i \in DOMAIN esResp.r.Items :
               \E c \in DOMAIN esResp.r.Items[i] : esResp.r.Items[i][c].Error # ""}

FirstFailing == CHOOSE i \in Failing : \A j \in Failing : i <= j

\* C1: on a "_bulk" request whose decoded envelope has Errors set, Run always
\* returns an error, whatever the HTTP status and the top-level error field:
\* the message and status of an entry with a non-empty error in the first
\* item that has one, or, when no item has one, "Unknown error while bulk
\* indexing" with status 0.
C1_BulkItemError ==
    (Returned /\ op = "Run" /\ decoded /\ BulkRule) =>
        /\ err # NoError
        /\ DecodeStagePassed =>
              /\ err.kind = "SearchError"
              /\ IF Failing = {}
                 THEN err.Msg = "Unknown error while bulk indexing" /\ err.StatusCode = 0
                 ELSE \E c \in DOMAIN esResp.r.Items[FirstFailing] :
                         /\ esResp.r.Items[FirstFailing][c].Error # ""
                         /\ err.Msg = esResp.r.Items[FirstFailing][c].Error
                         /\ err.StatusCode = esResp.r.Items[FirstFailing][c].Status

\* C1 witness: HTTP 200, Errors set, a top-level error present as well, the
\* first item fine and the second one in conflict: the conflict is returned.
C1_Witness ==
    /\ Returned /\ op = "Run" /\ BulkRule /\ DecodeStagePassed
    /\ out.status = 200
    /\ esResp.r.Error # ""
    /\ Len(esResp.r.Items) = 2 /\ Failing = {2}
    /\ err = SearchError("conflict", 409)

ExampleNotFound ==
    Object([AllAbsent EXCEPT !["error"] = JStr(NoSuchIndex), !["status"] = JNum(404)])

\* C2: when the bulk rule does not apply and the decoded envelope has a
\* non-empty top-level error, Run returns a SearchError with that message and
\* the envelope's status, whose text is "[<status>] <message>"; the body
\* {"error": "... [x]", "status": 404} gives status 404 and that message.
C2_TopLevelError ==
    /\ (Returned /\ op = "Run" /\ DecodeStagePassed /\ ~BulkRule /\ esResp.r.Error # "") =>
          /\ err.kind = "SearchError"
          /\ err.Msg = esResp.r.Error
          /\ err.StatusCode = esResp.r.Status
          /\ Error(err) = <<"[", esResp.r.Status, "] ", esResp.r.Error>>
    /\ (Returned /\ op = "Run" /\ Answered /\ req.Method # HEAD
            /\ out.body = ExampleNotFound) =>
          /\ err.kind = "SearchError"
          /\ Error(err) = <<"[", 404, "] ", NoSuchIndex>>

\* C2 witness: the example body arrives with HTTP 400 on a request that is not
\* a bulk request.
C2_Witness ==
    /\ Returned /\ op = "Run" /\ Answered /\ req.API # ApiBulk
    /\ out.status = 400 /\ out.body = ExampleNotFound
    /\ err = SearchError(NoSuchIndex, 404)

ExampleDeleted == Object([AllAbsent EXCEPT !["found"] = JBool(FALSE)])

\* What the body says the status is, the HTTP status when it says nothing
StatusOf(o) ==
    IF o.body.f["status"].t = "num" THEN o.body.f["status"].v ELSE o.status

\* C3: Run returns a nil error and the decoded envelope whenever the transport
\* succeeded, the status is not strictly between 201 and 400, decoding
\* succeeded, the bulk rule does not apply and the top-level error is empty;
\* a status of 400 or above alone produces no error.
C3_Success ==
    (Returned /\ op = "Run" /\ DecodeStagePassed /\ ~BulkRule /\ esResp.r.Error = "") =>
        /\ err = NoError
        /\ ~esResp.nil
        /\ req.Method # HEAD =>
              /\ esResp.r.Status = StatusOf(out)
              /\ esResp.r.Found = (out.body.f["found"] = JBool(TRUE))
              /\ ~esResp.r.Raw.nil

\* C3 witness: deleting an already deleted document: HTTP 404, found false,
\* and a nil error.
C3_Witness ==
    /\ Returned /\ op = "Run" /\ req.Method = DELETE
    /\ out.kind = "response" /\ out.status = 404 /\ out.body = ExampleDeleted
    /\ err = NoError
    /\ esResp.r.Status = 404 /\ ~esResp.r.Found

\* The keys the body has
Present(b) == {k \in Keys : b.f[k].t # "absent"}

\* C4: whenever Run returns an error built by the classifier, the envelope
\* returned with it is non-nil and fully decoded: status, error, found, items
\* and the raw tree of the body.
C4_EnvelopeWithError ==
    (Returned /\ err.kind = "SearchError") =>
        /\ ~esResp.nil
        /\ out.kind = "response" /\ decoded
        /\ esResp.r.Status = StatusOf(out)
        /\ out.body.f["error"].t = "str" => esResp.r.Error = out.body.f["error"].v
        /\ out.body.f["found"].t = "bool" => esResp.r.Found = out.body.f["found"].v
        /\ out.body.f["items"].t = "arr" =>
              Len(esResp.r.Items) = Len(out.body.f["items"].v)
        /\ ~esResp.r.Raw.nil
        /\ DOMAIN esResp.r.Raw.tree = Present(out.body)

\* C4 witness: the example error body: the error is returned and the envelope
\* shows status 404, the message and a raw tree with both keys.
C4_Witness ==
    /\ Returned /\ err.kind = "SearchError"
    /\ out.body = ExampleNotFound
    /\ esResp.r.Status = 404 /\ esResp.r.Error = NoSuchIndex
    /\ DOMAIN esResp.r.Raw.tree = {"error", "status"}

-----------------------------------------------------------------------------
(* Properties of run: the dispatch *)

\* run() has returned.
Ran == pc \in {"Run", "exists", "done", "panic"}

\* A body for the request exists: raw bytes, the bulk stream, or a Query that
\* encoding/json can encode.
BodyBuilt == Len(req.Body) > 0 \/ req.API = ApiBulk \/ req.Query.t \in {"nil", "map"}

\* http.NewRequest takes the method and the URL.
RequestAccepted == req.Method \in {GET, POST, PUT, DELETE, HEAD} /\ client.Port = <<"9">>

\* C5 as stated: the transport is invoked at most once, exactly once when the
\* request body could be built, and not at all when marshalling Query fails.
C5_AsStated ==
    /\ calls <= 1
    /\ Ran => (calls = 1 <=> BodyBuilt)

\* C5, amended: the transport is invoked at most once per call and never
\* again whatever it returns; exactly once when the request body could be
\* built and http.NewRequest accepted the method and the URL; not at all when
\* marshalling Query fails or http.NewRequest fails, and then that error is
\* what Run returns.
C5_TransportOnce ==
    /\ calls <= 1
    /\ Ran => (calls = 1 <=> (BodyBuilt /\ RequestAccepted))
    /\ Ran => (calls = 1 <=> out.kind # "none")
    /\ (Returned /\ ~BodyBuilt) => (calls = 0 /\ err.kind = "Marshal")
    /\ (Returned /\ BodyBuilt /\ ~RequestAccepted) => (calls = 0 /\ err.kind = "NewRequest")

\* C5 witness: the transport failed on a request that was built and accepted,
\* and Run is over with the transport asked once.
C5_Witness ==
    /\ Returned /\ BodyBuilt /\ RequestAccepted
    /\ out.kind = "error" /\ calls = 1 /\ err.kind = "transport"

\* C6: when the transport fails, Run returns the transport's error as it is,
\* nothing is decoded, the classifier does not run and the Response returned
\* is empty but for the status run() reported.
C6_TransportError ==
    (Returned /\ out.kind \in {"error", "readError"}) =>
        /\ err = [kind |-> IF out.kind = "error" THEN "transport" ELSE "read",
                  Msg |-> out.msg, StatusCode |-> 0, text |-> NilBody]
        /\ ~decoded
        /\ ~classified
        /\ esResp.r = NewResponse(out.status)

\* C6 witness: the host does not resolve.
C6_Witness ==
    /\ Returned /\ op = "Run" /\ req.Method = GET
    /\ out.kind = "error" /\ out.msg = "no such host"
    /\ err.Msg = "no such host" /\ esResp.r = NewResponse(0)

\* C7: a response is a hard failure exactly when 201 < status < 400: the
\* error's text is the raw body, nothing is decoded or classified.  For every
\* other status Run goes on to the decoding stage (which HEAD skips) and,
\* when the body decodes, to the classification.
C7_HardFailure ==
    (pc \in {"done", "panic"} /\ out.kind = "response") =>
        IF out.status > 201 /\ out.status < 400
        THEN /\ err.kind = "errorString"
             /\ err.text = out.body
             /\ ~decoded
             /\ ~classified
        ELSE /\ err.kind # "errorString"
             /\ decoded <=> req.Method # HEAD
             /\ classified <=> (req.Method = HEAD \/ BodyDecodes)

\* C7 witness: a 399 whose body is not JSON comes back as the error text.
C7_Witness ==
    /\ Returned /\ out.kind = "response" /\ out.status = 399
    /\ out.body = GarbageBody
    /\ err = ErrorsNew(GarbageBody)

Null == <<"n", "u", "l", "l">>

\* C8: the body sent is the raw Body when it is non-empty, else the bulk
\* stream on "_bulk", else the JSON of Query (null when Query is unset); Query
\* is not sent when one of the first two applies.
C8_BodyPriority ==
    (calls = 1) =>
        /\ sent.Body = postData
        /\ IF Len(req.Body) > 0 THEN sent.Body = req.Body
           ELSE IF req.API = ApiBulk THEN sent.Body = req.BulkData
           ELSE IF req.Query = QNil THEN sent.Body = Null
           ELSE sent.Body = Marshal(req.Query).bytes
        /\ (Len(req.Body) > 0 \/ req.API = ApiBulk) =>
              sent.Body \notin {Null, Marshal(QMap).bytes}

\* C8 witness: a "_bulk" request with raw Body, bulk stream and Query all set
\* sends the raw Body.
C8_Witness ==
    /\ calls = 1 /\ req.API = ApiBulk
    /\ Len(req.Body) > 0 /\ Len(req.BulkData) > 0 /\ req.Query = QMap
    /\ sent.Body = req.Body /\ sent.Body # req.BulkData

ExistenceCheck == op \in {"IndicesExist", "AliasExists"}

\* The status of the response, 0 when none was received
Received == IF out.kind \in {"response", "readError"} THEN out.status ELSE 0

\* C9 as stated: the existence checks return true exactly when the status is
\* 200, and false for every other status or when the call fails.
C9_AsStated ==
    (Returned /\ ExistenceCheck) => (exists <=> (Received = 200 /\ err = NoError))

\* C9, amended: for a HEAD request the body is never decoded and the envelope
\* carries the HTTP status and nothing else; IndicesExist and AliasExists
\* return true exactly when that status is 200, also when reading the body of
\* the 200 response failed and an error is returned with it, and false for
\* every other status and when no response was received.
C9_Head ==
    /\ (Ran /\ pc # "Run" /\ req.Method = HEAD) =>
          /\ ~decoded
          /\ pc # "panic"
          /\ esResp.r = NewResponse(Received)
          /\ out.kind = "response" => (err = NoError <=> ~(201 < Received /\ Received < 400))
    /\ (Returned /\ ExistenceCheck) =>
          /\ req.Method = HEAD
          /\ exists <=> Received = 200

\* C9 witness: a 200 whose body speaks of a 404: the index exists.
C9_Witness ==
    /\ Returned /\ op = "IndicesExist"
    /\ out.kind = "response" /\ out.status = 200 /\ out.body = ExampleNotFound
    /\ exists /\ err = NoError /\ esResp.r = NewResponse(200)

-----------------------------------------------------------------------------
(* Properties of URL *)

RECURSIVE Unescape(_)
\* The path a server reads from an escaped path: %XY stands for one character.
Unescape(s) ==
    IF s = <<>> THEN <<>>
    ELSE IF s[1] = "%" /\ Len(s) >= 3
    THEN <<CHOOSE c \in DOMAIN HexTable : HexTable[c] = <<s[2], s[3]>>>>
            \o Unescape(SubSeq(s, 4, Len(s)))
    ELSE <<s[1]>> \o Unescape(Tail(s))

RECURSIVE Slashed(_)
\* "/" before each segment
Slashed(segs) ==
    IF segs = <<>> THEN <<>> ELSE <<"/">> \o segs[1] \o Slashed(Tail(segs))

\* The segments of the resource path of a request
Segments(r) ==
    <<Join(r.IndexList, <<",">>)>>
        \o (IF r.TypeList # <<>> THEN <<Join(r.TypeList, <<",">>)>> ELSE <<>>)
        \o (IF r.ID # <<>> THEN <<r.ID>> ELSE <<>>)
        \o <<r.API>>

\* The extra parameters hold no key=value pair.
NoPairs(ea) == \A k \in DOMAIN ea : ea[k] = <<>>

Origin == Http \o <<":", "/", "/">> \o client.Host \o <<":">> \o client.Port

\* What follows scheme and host in the URL built
Resource == SubSeq(url, Len(Origin) + 1, Len(url))

Marks == {i \in DOMAIN Resource : Resource[i] = "?"}

ExampleUrl ==
    <<"/", "a", ",", "b", "/", "c", ",", "d", "/", "1", "2", "3", "4", "/", "?",
      "v", "e", "r", "s", "i", "o", "n", "=", "1">>

C10_NoQuery ==
    pc = "url" /\ req.API = <<"?">> /\ req.ExtraArgs = NoArgs /\ Marks = {}

\* The extra parameters were filled by Add calls alone, on an empty url.Values.
FilledByAdds == req.ExtraArgs = Filled(NoArgs, inserted)

\* What follows the "?" of the URL built
Query ==
    IF Marks = {} THEN <<>>
    ELSE LET q == CHOOSE i \in Marks : \A j \in Marks : i <= j
         IN SubSeq(Resource, q + 1, Len(Resource))

RECURSIVE Pairs(_)
\* key=value for each pair of s, in the order of s, joined by "&"
Pairs(s) ==
    IF s = <<>> THEN <<>>
    ELSE LET one == Escape(s[1].key, "encodeQueryComponent") \o <<"=">>
                        \o Escape(s[1].value, "encodeQueryComponent")
         IN IF Len(s) = 1 THEN one ELSE one \o <<"&">> \o Pairs(Tail(s))

RECURSIVE InsertByKey(_, _)
\* p put behind the pairs of the sorted list whose key is not greater
InsertByKey(sorted, p) ==
    IF sorted = <<>> THEN <<p>>
    ELSE IF Less(p.key, sorted[1].key) THEN <<p>> \o sorted
    ELSE <<sorted[1]>> \o InsertByKey(Tail(sorted), p)

RECURSIVE ByKey(_)
\* The pairs of s in ascending key order, pairs of one key in the order of s
ByKey(s) ==
    IF s = <<>> THEN <<>>
    ELSE InsertByKey(ByKey(SubSeq(s, 1, Len(s) - 1)), s[Len(s)])

\* C11 as stated: the query string lists the parameters in the order in which
\* they were inserted into the mapping.
C11_AsStated == (pc = "url" /\ FilledByAdds) => Query = Pairs(inserted)

\* C11: the query string lists the keys in ascending byte order, whatever the
\* order of insertion, and a key with several values once per value in value
\* order; so the same parameters inserted in another order give the same
\* query string.
C11_SortedKeys == (pc = "url" /\ FilledByAdds) => Query = Pairs(ByKey(inserted))

\* C11 witness: "b" was inserted before "a=" and has two values; the query
\* string is a%3D=%2F&b=1&b=2+
C11_Witness ==
    /\ pc = "url" /\ FilledByAdds
    /\ inserted = <<Pair(<<"b">>, <<"1">>), Pair(<<"a", "=">>, <<"/">>),
                    Pair(<<"b">>, <<"2", " ">>)>>
    /\ Query = <<"a", "%", "3", "D", "=", "%", "2", "F", "&", "b", "=", "1", "&",
                 "b", "=", "2", "+">>

\* The path of the URL built: what stands between the host and the "?"
Path ==
    IF Marks = {} THEN Resource
    ELSE LET q == CHOOSE i \in Marks : \A j \in Marks : i <= j
         IN SubSeq(Resource, 1, q - 1)

BulkPath == <<"/", "/", "_", "b", "u", "l", "k">>

\* C12: URL returns a URL for every request, and with an empty index list the
\* path keeps the empty first segment: it is "//" followed by the other
\* segments separated by "/"; with the API "_bulk" alone it is "//_bulk".
C12_EmptyIndexList ==
    (pc = "url") =>
        /\ Len(url) > Len(Origin)
        /\ SubSeq(url, 1, Len(Origin)) = Origin
        /\ (req.IndexList = <<>>) =>
              /\ Len(Path) >= 2 /\ Path[1] = "/" /\ Path[2] = "/"
              /\ Unescape(Path) = <<"/">> \o Slashed(Tail(Segments(req)))
              /\ (req.TypeList = <<>> /\ req.ID = <<>> /\ req.API = ApiBulk)
                     => Path = BulkPath

\* C12 witness: the URL of a bulk request, which names no index, is built.
C12_Witness ==
    /\ pc = "url" /\ req.IndexList = <<>> /\ req.API = ApiBulk
    /\ Resource = BulkPath

-----------------------------------------------------------------------------
(* Properties of BulkSend *)

\* BulkSend has built the bulk stream and its request.
Streamed == op = "BulkSend" /\ req.API = ApiBulk

RECURSIVE Lines(_)
\* The lines of a body: what stands before, between and behind its newlines
Lines(b) ==
    IF \A i \in DOMAIN b : b[i] # "\n" THEN <<b>>
    ELSE LET n == CHOOSE i \in DOMAIN b : b[i] = "\n" /\ \A j \in 1..(i - 1) : b[j] # "\n"
         IN <<SubSeq(b, 1, n - 1)>> \o Lines(SubSeq(b, n + 1, Len(b)))

IsDelete(d) == d.BulkCommand = BulkCommandDelete

\* The payload is a map or a struct (or a pointer to one) with a field.
HasFields(d) == d.Fields.t \in {"map", "struct"} /\ d.Fields.n >= 1

N == Len(documents)

TestTweets ==
    <<Document(IDStr(<<"1">>), <<"i">>, <<"t">>, BulkCommandIndex, QMap),
      Document(IDNil, <<"i">>, <<"t">>, BulkCommandIndex, StructPtr)>>

\* C13: when no document is a delete and every document has a payload with
\* at least one field, the stream has 2N+1 lines: lines 2k-1 and 2k are the
\* action line and the payload line of the k-th document, the last line is
\* empty; this is the body that is sent.
C13_TwoLinesEach ==
    (Streamed /\ \A k \in 1..N : ~IsDelete(documents[k]) /\ HasFields(documents[k])) =>
        LET ls == Lines(req.BulkData)
        IN /\ Len(ls) = 2 * N + 1
           /\ \A k \in 1..N :
                 /\ ls[2 * k - 1] = MarshalAction(documents[k]).bytes
                 /\ ls[2 * k] = Marshal(documents[k].Fields).bytes
           /\ ls[2 * N + 1] = <<>>
           /\ (calls = 1) => sent.Body = req.BulkData

\* C13 witness: the two tweets of TestBulkSend were sent as five lines.
C13_Witness ==
    /\ pc = "done" /\ op = "BulkSend" /\ documents = TestTweets
    /\ calls = 1 /\ Len(Lines(sent.Body)) = 5

\* The lines of the stream that are not empty
Emitted == SelectSeq(Lines(req.BulkData), LAMBDA l : l # <<>>)

RECURSIVE Stated(_)
\* The lines the documents should give: the action line of each, followed by
\* its payload line when it is not a delete and has a payload with a field
Stated(docs) ==
    IF docs = <<>> THEN <<>>
    ELSE <<MarshalAction(docs[1]).bytes>>
            \o (IF ~IsDelete(docs[1]) /\ HasFields(docs[1])
                THEN <<Marshal(docs[1].Fields).bytes>> ELSE <<>>)
            \o Stated(Tail(docs))

\* C14: a payload line is written for a document exactly when it is not a
\* delete and its payload has at least one field; a delete gives its action
\* line alone.
C14_AsStated == Streamed => Emitted = Stated(documents)

\* C15: the stream ends with one empty line and has no other empty line: its
\* lines are the action and payload lines written, and the empty last line.
C15_AsStated ==
    Streamed =>
        LET ls == Lines(req.BulkData)
        IN /\ ls[Len(ls)] = <<>>
           /\ \A i \in 1..(Len(ls) - 1) : ls[i] # <<>>
           /\ Len(ls) = Len(Emitted) + 1

NotMapOrStruct(d) == d.Fields.t \notin {"nil", "map", "struct"}

\* encoding/json can encode the document up to the check of its payload.
Encodable(d) == d.ID.t # "chan" /\ (HasFields(d) => d.Fields.ok)

\* C17: when a document has a payload that is neither a map nor a struct,
\* BulkSend is over at once, with an encoding error and without any request
\* to the transport, wherever the document stands; the error is the one of
\* the payload format unless an earlier document could not be marshalled.
C17_ScalarFields ==
    (op = "BulkSend" /\ \E k \in 1..N : NotMapOrStruct(documents[k])) =>
        /\ pc = "done"
        /\ calls = 0 /\ sent = NotSent /\ out = NoOutcome
        /\ err \in {FieldsFormatError, MarshalError}
        /\ LET k == CHOOSE i \in 1..N : NotMapOrStruct(documents[i])
                         /\ \A j \in 1..(i - 1) : ~NotMapOrStruct(documents[j])
           IN (\A j \in 1..(k - 1) : Encodable(documents[j])) => err = FieldsFormatError

\* C17 witness: the second document has the payload "test".
C17_Witness ==
    /\ pc = "done" /\ op = "BulkSend" /\ N = 2
    /\ documents[1].Fields = QMap /\ documents[2].Fields = Scalar
    /\ err = FieldsFormatError /\ calls = 0

-----------------------------------------------------------------------------
(* Properties of Index and of the decoding *)

\* C18: Index returns an error for a document whose payload is neither a map
\* nor a struct.
C18_AsStated ==
    (Returned /\ op = "Index" /\ NotMapOrStruct(documents[1])) => err # NoError

\* C19 as stated: whenever Run received a response with a body that is not
\* empty, the envelope returned holds the raw copy.
C19_AsStated ==
    (Returned /\ out.kind = "response" /\ out.body.kind # "empty") => ~esResp.r.Raw.nil

\* C19: the envelope holds the raw copy of the body, with every key of the
\* body, exactly when the request is not a HEAD and Run returns no error or
\* an error of the classifier; with a transport, hard-failure or decoding
\* error, and for HEAD, the raw copy is nil.
C19_RawWhenDecoded ==
    Returned =>
        IF req.Method # HEAD /\ err.kind \in {"nil", "SearchError"}
        THEN /\ out.kind = "response" /\ out.body.kind = "object"
             /\ ~esResp.r.Raw.nil
             /\ DOMAIN esResp.r.Raw.tree = Present(out.body)
        ELSE esResp.r.Raw.nil

\* C19 witness: a 200 response {"found": false} to a request that is not a
\* HEAD: no error, and the raw copy has the key.
C19_Witness ==
    /\ Returned /\ req.Method = GET /\ out.status = 200 /\ err = NoError
    /\ Present(out.body) = {"found"}
    /\ ~esResp.r.Raw.nil /\ DOMAIN esResp.r.Raw.tree = {"found"}

\* The body received is a JSON object with a field whose JSON type does not
\* fit the envelope, and Run came to decode it.
Mismatched ==
    Answered /\ req.Method # HEAD /\ out.body.kind = "object" /\ AnyMismatch(out.body.f)

\* C20: a field of another shape does not end the decoding: Run returns no
\* decoding error, the fields that fit are in the envelope, the raw tree is
\* attached and the classification took place.
C20_AsStated ==
    (Returned /\ Mismatched) =>
        /\ err.kind # "UnmarshalTypeError"
        /\ out.body.f["errors"].t = "bool" => esResp.r.Errors = out.body.f["errors"].v
        /\ ~esResp.r.Raw.nil
        /\ classified

-----------------------------------------------------------------------------
(* Properties of the aggregation view *)

\* The "buckets" entry of the node, when there is one, is a list of maps.
WellFormed(a) ==
    ("buckets" \in DOMAIN a) =>
        /\ a["buckets"].t = "slice"
        /\ \A i \in DOMAIN a["buckets"].v : a["buckets"].v[i].t = "map"

\* C21: Buckets returns the entries of the node's "buckets" list as Buckets,
\* as many and in the same order; for a node without a "buckets" entry it
\* returns an empty list, and in neither case fails.
C21_Buckets ==
    (agg.call = "Buckets" /\ WellFormed(agg.recv)) =>
        /\ pc = "buckets"
        /\ IF "buckets" \notin DOMAIN agg.recv THEN agg.result = <<>>
           ELSE /\ Len(agg.result) = Len(agg.recv["buckets"].v)
                /\ \A i \in DOMAIN agg.result :
                      /\ ~agg.result[i].nil
                      /\ agg.result[i].m = agg.recv["buckets"].v[i].v

\* C21 witness: the terms aggregation of TestAggregations: two buckets,
\* "bar" before "foo".
C21_Witness ==
    /\ pc = "buckets" /\ agg.call = "Buckets"
    /\ agg.recv = [buckets |-> ISlice(<<BarBucket, FooBucket>>)]
    /\ Len(agg.result) = 2
    /\ agg.result[1].m["key"] = IStr("bar") /\ agg.result[2].m["key"] = IStr("foo")

\* C22: Key returns the value under "key" as it is (nil without the entry);
\* Aggregation(name) returns the map under name, and an empty map that is not
\* nil when the bucket has no entry of that name. For the bucket "foo" Key
\* is "foo" and Aggregation("age")["sum"] is 25.
C22_KeyAndAggregation ==
    /\ (agg.call = "Key") =>
          /\ pc = "view"
          /\ agg.result = IF "key" \in DOMAIN agg.recv THEN agg.recv["key"] ELSE INil
          /\ (agg.recv = FooBucket.v) => agg.result = IStr("foo")
    /\ (agg.call = "Aggregation" /\ agg.name \notin DOMAIN agg.recv) =>
          /\ pc = "view"
          /\ ~agg.result.nil /\ DOMAIN agg.result.m = {}
    /\ (agg.call = "Aggregation" /\ agg.name \in DOMAIN agg.recv
            /\ agg.recv[agg.name].t = "map") =>
          /\ pc = "view"
          /\ ~agg.result.nil /\ agg.result.m = agg.recv[agg.name].v
          /\ (agg.recv = FooBucket.v /\ agg.name = "age") =>
                agg.result.m["sum"] = IFloat(25)

\* C22 witness: the second bucket of the list is "foo"; its aggregation
\* "age" was taken and has the sum 25.
C22_Witness ==
    /\ pc = "view" /\ agg.call = "Aggregation" /\ agg.name = "age"
    /\ agg.i = 2 /\ agg.recv = FooBucket.v
    /\ agg.result.m["sum"] = IFloat(25)

\* C23: Buckets and Aggregation return a value for every node and bucket,
\* whatever stands under "buckets" or under the name.
C23_AsStated == (agg.call \in {"Buckets", "Aggregation"}) => pc # "panic"

-----------------------------------------------------------------------------
(* Properties of calls that share a Client *)

Called(p) == procs[p].pc # "idle"
Issued(p) == procs[p].sent # NotSent

-----------------------------------------------------------------------------
(* Properties of the envelope *)

\* The groups of the envelope the model carries: Found stands for the fields
\* of a single document, Items is the list of bulk results.
SingleItem(resp) == resp.Found
BulkItems(resp) == resp.Items # <<>>

ObjectDecoded == pc = "done" /\ decoded /\ body.kind = "object"

\* C25 as stated, for the two groups of the model: in the envelope of a call
\* that decoded its body at most one group is populated, the group of the
\* endpoint: a bulk call leaves the fields of a single document at zero and
\* any other call leaves the item list empty, whatever the body contains.
C25_AsStated ==
    (pc = "done" /\ decoded) =>
        /\ ~(SingleItem(esResp.r) /\ BulkItems(esResp.r))
        /\ (req.API = ApiBulk) => ~SingleItem(esResp.r)
        /\ (req.API # ApiBulk) => ~BulkItems(esResp.r)

\* C25: a group of the envelope is populated exactly when the decoded body
\* carries a field of that group, whatever the endpoint: Found is set exactly
\* when the body is an object with "found": true and Items is non-empty
\* exactly when the body is an object with a non-empty "items" array; without
\* a decoded object both stay at zero.
C25_GroupsFollowBody ==
    (pc = "done") =>
        /\ SingleItem(esResp.r) <=> (ObjectDecoded /\ body.f["found"] = JBool(TRUE))
        /\ BulkItems(esResp.r) <=>
               (ObjectDecoded /\ body.f["items"].t = "arr" /\ body.f["items"].v # <<>>)

\* A call that is no bulk call returned with both groups populated.
C25_Witness ==
    /\ pc = "done" /\ decoded /\ err = NoError
    /\ req.API # ApiBulk
    /\ SingleItem(esResp.r) /\ BulkItems(esResp.r)

-----------------------------------------------------------------------------
(* Properties of the request headers *)

WasSent == sent # NotSent

\* C26: the request handed to the HTTP client carries the header
\* Content-Type: application/json exactly when its method is POST or PUT; a
\* GET, HEAD or DELETE request carries no Content-Type, also when the body
\* is a marshalled Query.
C26_ContentType ==
    WasSent =>
        /\ (sent.ContentType = "application/json") <=> (sent.Method \in {POST, PUT})
        /\ (sent.Method \in {GET, HEAD, DELETE}) => sent.ContentType = ""

\* A GET request went out with a marshalled Query as its body and without
\* the header.
C26_Witness ==
    /\ WasSent
    /\ sent.Method = GET
    /\ req.Query = QMap /\ sent.Body = Marshal(QMap).bytes /\ sent.Body # <<>>
    /\ sent.ContentType = ""

-----------------------------------------------------------------------------
(* Properties of the envelope's status *)

\* The status code of the HTTP response, 0 when there was none
HTTPStatus == out.status

\* json.Unmarshal got to the fields of the body.
FieldsDecoded == decoded /\ body.kind = "object"

-----------------------------------------------------------------------------
(* Properties of Index: method and path *)

\* The URL of an Index call without an id segment: /<index>/<type>/
IndexBase == Origin \o <<"/">> \o documents[1].Index \o <<"/">> \o documents[1].Type
                 \o <<"/">>

\* run() has built the URL of the Index call.
IndexBuilt == op = "Index" /\ pc \in {"Run", "done"} /\ url # <<>>

\* C28: Index issues a POST to /<index>/<type>/ when Document.ID is nil and a
\* PUT to /<index>/<type>/<id>/ when Document.ID is a string, the empty
\* string included; the method is PUT exactly when the path has an id
\* segment after the type.
C28_AsStated ==
    IndexBuilt =>
        /\ (documents[1].ID.t = "nil") => (req.Method = POST /\ url = IndexBase)
        /\ (documents[1].ID.t = "string") =>
               (req.Method = PUT /\ url = IndexBase \o documents[1].ID.s \o <<"/">>)
        /\ (req.Method = PUT) <=> (url # IndexBase)

-----------------------------------------------------------------------------
(* Properties of AddAlias and RemoveAlias *)

\* One entry per index of the call, in the order of the indexes
StatedActions ==
    [i \in DOMAIN aliasCall.indexes |->
        Entry(aliasCall.action, aliasCall.indexes[i], aliasCall.alias)]

\* C29: the body AddAlias and RemoveAlias send is {"actions": [...]} with
\* exactly one entry {action: {"index": index, "alias": alias}} per index of
\* the call, in the order of the indexes, and no other entry: no null, no
\* empty entry.
C29_AsStated ==
    (op \in {"AddAlias", "RemoveAlias"} /\ WasSent) =>
        /\ Len(req.Query.actions) = Len(aliasCall.indexes)
        /\ \A i \in DOMAIN req.Query.actions : ~req.Query.actions[i].nil
        /\ sent.Body = MarshalCommand(StatedActions)

====
